---- MODULE Spec2Model ----
(***************************************************************************)
(* A model of finkles' ScriptConfig.Start (src/main.go): resolving the     *)
(* node count, the optional install step, launching the bootstrap node,    *)
(* scanning its stderr line by line for the peer ID and the listen         *)
(* address, and the remaining iterations of the spawn loop.                *)
(*                                                                         *)
(* A line of the bootstrap node's log is a sequence of tokens.  The tokens *)
(* are the pieces of text that main.go searches for, plus one opaque piece *)
(* of other text:                                                          *)
(*   PeerIDColon   "peer ID: "                                             *)
(*   PeerIDBare    "peer ID" not followed by ": "                          *)
(*   AssignedFull  "Assigned to new address; listening on "                *)
(*   AssignedBare  "Assigned to new address" not followed by the rest      *)
(*   Now           " now"                                                  *)
(*   Txt           any other text                                          *)
(***************************************************************************)
EXTENDS Integers, Sequences, FiniteSets, TLC

VARIABLES
    yamlNodes,      \* the Nodes section of the configuration file
    cfgNodes,       \* cfg.Nodes: <<>> is nil, <<[N |-> k]>> a struct
    pc,             \* position of Start
    n,              \* the number of nodes to spawn
    probe,          \* results of os.Stat / exec.LookPath while in scope
    i,              \* the loop index
    bootstrapNode,  \* []string; <<>> is the nil slice
    workers,        \* state.Workers
    ret,            \* what Start returned: [state, err]
    attempts,       \* history: launches attempted
    launched,       \* history: roles of the processes started, in order
    linesRead,      \* history: lines ReadLine has returned
    src,            \* history: for each entry of bootstrapNode, its rule and line
    streamEnd,      \* history: how the bootstrap stream ended
    launchErr,      \* history: the error of a failed bootstrap launch
    curLine,        \* the local `line` being scanned, <<>> outside the loop body
    isPrefix,       \* ReadLine's second result for that line
    prev,           \* history: bootstrapNode before that line was scanned
    run             \* history: the number of this invocation of Start

vars == <<yamlNodes, cfgNodes, pc, n, probe, i, bootstrapNode, workers, ret,
          attempts, launched, linesRead, src, streamEnd, launchErr,
          curLine, isPrefix, prev, run>>

----------------------------------------------------------------------------
(* Bounds *)

MaxN == 1
MaxLines == 3
MaxLineLen == 3
MaxRuns == 2

(* Program constants *)

DefaultNumNodes == 8

----------------------------------------------------------------------------
(* Text *)

PeerIDColon == "peer ID: "
PeerIDBare == "peer ID"
AssignedFull == "Assigned to new address; listening on "
AssignedBare == "Assigned to new address"
Now == " now"
Txt == "x"

Tokens == {PeerIDColon, PeerIDBare, AssignedFull, AssignedBare, Now, Txt}

SeqsUpTo(S, k) == UNION {[1..m -> S] : m \in 0..k}

Lines == SeqsUpTo(Tokens, MaxLineLen)

Occurs(line, toks) == \E k \in 1..Len(line) : line[k] \in toks

\* strings.Contains(line, "peer ID")
ContainsPeerID(line) == Occurs(line, {PeerIDColon, PeerIDBare})

\* strings.Contains(line, "Assigned to new address")
ContainsAssigned(line) == Occurs(line, {AssignedFull, AssignedBare})

\* strings.Split(s, sep): the pieces of s between the occurrences of sep
RECURSIVE Split(_, _)
Split(s, sep) ==
    IF \A k \in 1..Len(s) : s[k] # sep
    THEN <<s>>
    ELSE LET k == CHOOSE j \in 1..Len(s) :
                      s[j] = sep /\ \A h \in 1..(j - 1) : s[h] # sep
         IN  <<SubSeq(s, 1, k - 1)>> \o Split(SubSeq(s, k + 1, Len(s)), sep)

----------------------------------------------------------------------------
(* Configuration *)

\* The Nodes section of the file: <<>> when absent, else a record whose N is
\* <<>> when the section leaves N unset and <<k>> when it sets N to k.
YamlNodes == {<<>>, <<[N |-> <<>>]>>} \cup {<<[N |-> <<k>>]>> : k \in 0..MaxN}

\* Decoding into ScriptConfig.Nodes: a missing section stays nil, and N is a
\* plain uint64, so an unset N is 0.
Decode(y) ==
    IF y = <<>> THEN <<>>
    ELSE <<[N |-> IF y[1].N = <<>> THEN 0 ELSE y[1].N[1]]>>

\* A variant that takes a node count of 0 for an unset one
ResolveNZeroIsDefault(nodes) ==
    IF nodes # <<>> /\ nodes[1].N > 0 THEN nodes[1].N ELSE DefaultNumNodes

\* main.go 49-54
ResolveN(nodes) == IF nodes # <<>> THEN nodes[1].N ELSE DefaultNumNodes

----------------------------------------------------------------------------
(* Errors and return values *)

NoErr == "nil"
ErrNotExist == "file does not exist"
ErrOther == "stat failed"
ErrNotFound == "executable file not found in $PATH"
ErrInstall == "cargo install failed"
ErrPipe == "StderrPipe failed"
ErrStart == "cmd.Start failed"
ErrEOF == "EOF"
ErrRead == "read failed"

\* return nil, err
ReturnErr(err) == [state |-> <<>>, err |-> err]

\* return &state, nil
ReturnState(w) == [state |-> <<[Workers |-> w]>>, err |-> NoErr]

NotReturned == [state |-> <<>>, err |-> NoErr]

\* main.go 63: the condition under which the install step runs
NeedsInstall(openErr, statErr) ==
    openErr # NoErr \/ statErr = NoErr \/ ~(statErr = ErrNotExist)

\* main.go 68-70
OnInstallErr(err) == [pc |-> "done", ret |-> ReturnErr(err)]

\* A variant that drops the launch error and goes on to read the stream
OnLaunchErrContinue(err) == [pc |-> "read", ret |-> NotReturned]

\* main.go 90-92 and 98-100
OnLaunchErr(err) == [pc |-> "done", ret |-> ReturnErr(err)]

\* bufio.Reader.ReadLine: the error it hands back when the stream ended
\* (io.EOF) or when the underlying read failed (the reader's error)
ReadLineErr(ev) == IF ev = "EOF" THEN ErrEOF ELSE ErrRead

\* A variant that hands back the state gathered so far with the error
OnReadErrPartial(err) == [pc |-> "done", ret |-> [state |-> <<[Workers |-> <<>>]>>, err |-> err]]

\* A variant that replaces the reader's error by one error of its own
OnReadErrGeneric(err) == [pc |-> "done", ret |-> ReturnErr("bootstrap discovery failed")]

\* main.go 104-106
OnReadErr(err) == [pc |-> "done", ret |-> ReturnErr(err)]

----------------------------------------------------------------------------
(* Scanning one line *)

\* A variant that stores every piece that follows a `peer ID: `
PeerRuleEveryPiece(st, line, no) ==
    IF ContainsPeerID(line)
    THEN LET parts == Split(line, PeerIDColon)
             e == [rule |-> "peer", line |-> no]
         IN  IF Len(parts) < 2
             THEN [st EXCEPT !.panic = TRUE]
             ELSE IF Len(parts) = 2
             THEN [st EXCEPT !.bn = Append(@, parts[2]), !.src = Append(@, e)]
             ELSE [st EXCEPT !.bn = Append(Append(@, parts[2]), parts[3]),
                             !.src = Append(Append(@, e), e)]
    ELSE st

\* A variant that splits the line without looking for `peer ID` first
PeerRuleNoGuard(st, line, no) ==
    LET parts == Split(line, PeerIDColon)
    IN  IF Len(parts) < 2
        THEN [st EXCEPT !.panic = TRUE]
        ELSE [st EXCEPT !.bn = Append(@, parts[2]),
                        !.src = Append(@, [rule |-> "peer", line |-> no])]

\* main.go 115-117.  st is [bn, src, panic]; no is the number of the line.
PeerRule(st, line, no) ==
    IF ContainsPeerID(line)
    THEN LET parts == Split(line, PeerIDColon)
         IN  IF Len(parts) < 2
             THEN [st EXCEPT !.panic = TRUE]
             ELSE [st EXCEPT !.bn = Append(@, parts[2]),
                             !.src = Append(@, [rule |-> "peer", line |-> no])]
    ELSE st

\* main.go 122-124
AddrRule(st, line, no) ==
    IF st.panic THEN st
    ELSE IF ContainsAssigned(line) /\ Len(st.bn) < 2
    THEN LET parts == Split(line, AssignedFull)
         IN  IF Len(parts) < 2
             THEN [st EXCEPT !.panic = TRUE]
             ELSE [st EXCEPT !.bn = Append(@, Split(parts[2], Now)[1]),
                             !.src = Append(@, [rule |-> "addr", line |-> no])]
    ELSE st

\* A variant that leaves the loop one entry late
BreakCondLate(bn) == Len(bn) > 2

\* main.go 128
BreakCond(bn) == Len(bn) >= 2

----------------------------------------------------------------------------
(* Start *)

Init ==
    /\ yamlNodes \in YamlNodes
    /\ cfgNodes = Decode(yamlNodes)
    /\ pc = "start"
    /\ n = 0
    /\ probe = <<>>
    /\ i = 0
    /\ bootstrapNode = <<>>
    /\ workers = <<>>
    /\ ret = NotReturned
    /\ attempts = 0
    /\ launched = <<>>
    /\ linesRead = 0
    /\ src = <<>>
    /\ streamEnd = "open"
    /\ launchErr = NoErr
    /\ curLine = <<>>
    /\ isPrefix = FALSE
    /\ prev = <<>>
    /\ run = 1

\* main.go 47-63: resolve n, look for cargo.toml and for smcd
Begin ==
    /\ pc = "start"
    /\ n' = ResolveN(cfgNodes)
    /\ \E openErr \in {NoErr, ErrNotFound}, statErr \in {NoErr, ErrNotExist, ErrOther} :
           probe' = <<[openErr |-> openErr, statErr |-> statErr]>>
    /\ pc' = "check"
    /\ UNCHANGED <<yamlNodes, cfgNodes, i, bootstrapNode, workers, ret,
                   attempts, launched, linesRead, src, streamEnd, launchErr>>
    /\ UNCHANGED <<curLine, isPrefix, prev, run>>

\* main.go 63-71, the install step succeeds
InstallOK ==
    /\ pc = "check"
    /\ NeedsInstall(probe[1].openErr, probe[1].statErr)
    /\ pc' = "loop"
    /\ probe' = <<>>
    /\ UNCHANGED <<yamlNodes, cfgNodes, n, i, bootstrapNode, workers, ret,
                   attempts, launched, linesRead, src, streamEnd, launchErr>>
    /\ UNCHANGED <<curLine, isPrefix, prev, run>>

\* main.go 63-71, the install step fails
InstallFail ==
    /\ pc = "check"
    /\ NeedsInstall(probe[1].openErr, probe[1].statErr)
    /\ pc' = OnInstallErr(ErrInstall).pc
    /\ ret' = OnInstallErr(ErrInstall).ret
    /\ UNCHANGED <<yamlNodes, cfgNodes, n, probe, i, bootstrapNode, workers,
                   attempts, launched, linesRead, src, streamEnd, launchErr>>
    /\ UNCHANGED <<curLine, isPrefix, prev, run>>

\* main.go 63, the condition is false
SkipInstall ==
    /\ pc = "check"
    /\ ~NeedsInstall(probe[1].openErr, probe[1].statErr)
    /\ pc' = "loop"
    /\ probe' = <<>>
    /\ UNCHANGED <<yamlNodes, cfgNodes, n, i, bootstrapNode, workers, ret,
                   attempts, launched, linesRead, src, streamEnd, launchErr>>
    /\ UNCHANGED <<curLine, isPrefix, prev, run>>

\* main.go 79-100, the bootstrap node starts
LaunchBootstrapOK ==
    /\ pc = "loop"
    /\ i < n
    /\ bootstrapNode = <<>>
    /\ attempts' = attempts + 1
    /\ launched' = Append(launched, "Bootstrap")
    /\ pc' = "read"
    /\ UNCHANGED <<yamlNodes, cfgNodes, n, probe, i, bootstrapNode, workers, ret,
                   linesRead, src, streamEnd, launchErr>>
    /\ UNCHANGED <<curLine, isPrefix, prev, run>>

\* main.go 79-100, StderrPipe or cmd.Start fails
LaunchBootstrapFail ==
    /\ pc = "loop"
    /\ i < n
    /\ bootstrapNode = <<>>
    /\ attempts' = attempts + 1
    /\ \E err \in {ErrPipe, ErrStart} :
           /\ launchErr' = err
           /\ pc' = OnLaunchErr(err).pc
           /\ ret' = OnLaunchErr(err).ret
    /\ UNCHANGED <<yamlNodes, cfgNodes, n, probe, i, bootstrapNode, workers,
                   launched, linesRead, src, streamEnd>>
    /\ UNCHANGED <<curLine, isPrefix, prev, run>>

\* main.go 102-131, ReadLine returns a line
ReadLine ==
    /\ pc = "read"
    /\ linesRead < MaxLines
    /\ linesRead' = linesRead + 1
    /\ \E line \in Lines :
           LET st0 == [bn |-> bootstrapNode, src |-> src, panic |-> FALSE]
               st  == AddrRule(PeerRule(st0, line, linesRead'), line, linesRead')
           IN  /\ bootstrapNode' = st.bn
               /\ src' = st.src
               /\ IF st.panic
                  THEN pc' = "panic" /\ i' = i
                  ELSE IF BreakCond(st.bn)
                  THEN pc' = "loop" /\ i' = i + 1
                  ELSE pc' = "read" /\ i' = i
    /\ UNCHANGED <<yamlNodes, cfgNodes, n, probe, workers, ret,
                   attempts, launched, streamEnd, launchErr>>
    /\ UNCHANGED <<curLine, isPrefix, prev, run>>

\* main.go 103-106, the stream ends or the read fails
ReadLineErrs ==
    /\ pc = "read"
    /\ \E ev \in {"EOF", "fail"} :
           /\ streamEnd' = ev
           /\ pc' = OnReadErr(ReadLineErr(ev)).pc
           /\ ret' = OnReadErr(ReadLineErr(ev)).ret
    /\ UNCHANGED <<yamlNodes, cfgNodes, n, probe, i, bootstrapNode, workers,
                   attempts, launched, linesRead, src, launchErr>>
    /\ UNCHANGED <<curLine, isPrefix, prev, run>>

\* main.go 79-82 and 134-140: an iteration once bootstrapNode is set; the
\* peer launch is commented out, so the body does nothing
PeerIteration ==
    /\ pc = "loop"
    /\ i < n
    /\ bootstrapNode # <<>>
    /\ i' = i + 1
    /\ UNCHANGED <<yamlNodes, cfgNodes, pc, n, probe, bootstrapNode, workers, ret,
                   attempts, launched, linesRead, src, streamEnd, launchErr>>
    /\ UNCHANGED <<curLine, isPrefix, prev, run>>

\* main.go 79 and 142-143
Return ==
    /\ pc = "loop"
    /\ ~(i < n)
    /\ pc' = "done"
    /\ ret' = ReturnState(workers)
    /\ UNCHANGED <<yamlNodes, cfgNodes, n, probe, i, bootstrapNode, workers,
                   attempts, launched, linesRead, src, streamEnd, launchErr>>
    /\ UNCHANGED <<curLine, isPrefix, prev, run>>

Next ==
    \/ Begin
    \/ InstallOK
    \/ InstallFail
    \/ SkipInstall
    \/ LaunchBootstrapOK
    \/ LaunchBootstrapFail
    \/ ReadLine
    \/ ReadLineErrs
    \/ PeerIteration
    \/ Return

Spec == Init /\ [][Next]_vars

----------------------------------------------------------------------------
(* The read step in two parts, so that the line being scanned is visible *)

\* The configuration without a Nodes section
InitDefault == Init /\ yamlNodes = <<>>

\* main.go 102-124: ReadLine returns a line, or the first part of a line that
\* is longer than the reader's buffer (isPrefix), and the two rules are
\* applied to it
ReadScan ==
    /\ pc = "read"
    /\ linesRead < MaxLines
    /\ linesRead' = linesRead + 1
    /\ \E l \in Lines, p \in BOOLEAN :
           LET st0 == [bn |-> bootstrapNode, src |-> src, panic |-> FALSE]
               st  == AddrRule(PeerRule(st0, l, linesRead'), l, linesRead')
           IN  /\ p => l # <<>>
               /\ curLine' = l
               /\ isPrefix' = p
               /\ prev' = bootstrapNode
               /\ bootstrapNode' = st.bn
               /\ src' = st.src
               /\ pc' = IF st.panic THEN "panic" ELSE "scanned"
    /\ UNCHANGED <<yamlNodes, cfgNodes, n, probe, i, workers, ret,
                   attempts, launched, streamEnd, launchErr, run>>

\* main.go 126-131: leave the loop or read on; the locals of the body end
Advance ==
    /\ pc = "scanned"
    /\ IF BreakCond(bootstrapNode)
       THEN pc' = "loop" /\ i' = i + 1
       ELSE pc' = "read" /\ i' = i
    /\ curLine' = <<>>
    /\ isPrefix' = FALSE
    /\ prev' = <<>>
    /\ UNCHANGED <<yamlNodes, cfgNodes, n, probe, bootstrapNode, workers, ret,
                   attempts, launched, linesRead, src, streamEnd, launchErr, run>>

NextScan ==
    \/ Begin
    \/ InstallOK
    \/ InstallFail
    \/ SkipInstall
    \/ LaunchBootstrapOK
    \/ LaunchBootstrapFail
    \/ ReadScan
    \/ Advance
    \/ ReadLineErrs
    \/ PeerIteration
    \/ Return

SpecScan == InitDefault /\ [][NextScan]_vars

----------------------------------------------------------------------------
(* Calling Start again on the same configuration *)

\* A variant in which bootstrapNode outlives the call
EntryBootstrapNodeKept(old) == old

\* main.go 73-74: bootstrapNode is declared in Start, so it is nil at entry
EntryBootstrapNode(old) == <<>>

\* main.go 56-57: state is declared in Start, so Workers is nil at entry
EntryWorkers(old) == <<>>

\* main.go 46-82 (called at 215): Start has returned and is called again; its
\* locals are new and the history of the invocation starts again
Restart ==
    /\ pc = "done"
    /\ run < MaxRuns
    /\ run' = run + 1
    /\ pc' = "start"
    /\ n' = 0
    /\ probe' = <<>>
    /\ i' = 0
    /\ bootstrapNode' = EntryBootstrapNode(bootstrapNode)
    /\ workers' = EntryWorkers(workers)
    /\ ret' = NotReturned
    /\ attempts' = 0
    /\ launched' = <<>>
    /\ linesRead' = 0
    /\ src' = <<>>
    /\ streamEnd' = "open"
    /\ launchErr' = NoErr
    /\ UNCHANGED <<yamlNodes, cfgNodes, curLine, isPrefix, prev>>

NextAgain == Next \/ Restart

SpecAgain == InitDefault /\ [][NextAgain]_vars

----------------------------------------------------------------------------
(* Progress *)

\* Start is sequential code, so each of its steps is taken once it can be; the
\* bootstrap node's stream keeps delivering (a line, its end or an error) as
\* long as Start is reading it.
SpecLive == Init /\ [][Next]_vars /\ WF_vars(Next)

----------------------------------------------------------------------------
(* Properties *)

Returned == pc = "done"

Succeeded == Returned /\ ret.err = NoErr

\* The rules that produced the entries of bootstrapNode
Rules == {src[k].rule : k \in 1..Len(src)}

\* The read loop was left through the break of main.go 128-130
DiscoveryComplete == pc \in {"loop", "done"} /\ Len(bootstrapNode) >= 2

\* A line with the peer ID and a line with the address have both been used
BothKnown == Rules = {"peer", "addr"}

\* The roles of n launched nodes: the bootstrap node, then the peers
RolesOf(k) == [j \in 1..k |-> IF j = 1 THEN "Bootstrap" ELSE "Peer"]

\* C1: for n >= 1 and a stream that yields both facts, a successful Start has
\* launched exactly n processes and returns a state whose Workers has length n,
\* in launch order, the bootstrap node first and the peers after it.
C1_StartLaunchesN ==
    (Succeeded /\ n >= 1 /\ BothKnown) =>
        /\ launched = RolesOf(n)
        /\ ret.state # <<>>
        /\ ret.state[1].Workers = RolesOf(n)

\* C2: whenever the read loop is left without an error, one entry of
\* bootstrapNode came from a `peer ID` line and one from an
\* `Assigned to new address` line.
C2_CompleteHasBothFacts ==
    DiscoveryComplete => ("peer" \in Rules /\ "addr" \in Rules)

\* C3: each fact is stored at most once: no two entries of bootstrapNode come
\* from the same rule, so a second `peer ID` line is not stored.
C3_FirstMatchWins ==
    \A j, k \in 1..Len(src) : j # k => src[j].rule # src[k].rule

\* C4: once a peer ID line and an address line have been used, in either
\* order, bootstrapNode[0] is the value of the peer ID line and
\* bootstrapNode[1] the value of the address line.
C4_OrderIndependent ==
    (DiscoveryComplete /\ BothKnown) =>
        (src[1].rule = "peer" /\ src[2].rule = "addr")

\* C5: a peer is launched only after discovery has completed, and the order of
\* the launches is the index order of the returned state's Workers.
C5_LaunchOrder ==
    /\ (\E k \in 1..Len(launched) : launched[k] = "Peer") => Len(bootstrapNode) >= 2
    /\ Succeeded => ret.state[1].Workers = launched

\* C6: when the stream ends or a read fails before both entries are known,
\* Start has returned the error with a nil state, and from then on it reads no
\* line and launches no node.
C6_StreamEndFails ==
    /\ [](streamEnd # "open" =>
              /\ Returned
              /\ ret.state = <<>>
              /\ ret.err # NoErr
              /\ Len(bootstrapNode) < 2)
    /\ [][streamEnd # "open" =>
              /\ linesRead' = linesRead
              /\ launched' = launched
              /\ attempts' = attempts]_vars

C6_Witness ==
    /\ Returned
    /\ streamEnd = "EOF"
    /\ Len(bootstrapNode) = 1
    /\ ret = ReturnErr(ErrEOF)

\* C7: once both facts are known Start is no longer reading, and the number of
\* lines read is the number of the line that set the second fact.
C7_NoReadAfterBothFacts ==
    BothKnown => (pc # "read" /\ linesRead = src[2].line)

C7_Witness ==
    /\ Returned
    /\ BothKnown
    /\ src[1].line = 1
    /\ src[2].line = 2
    /\ linesRead = 2

\* C8: when launching the bootstrap node fails, Start has returned that error
\* with a nil state, has read no line, has started no process and has made no
\* second attempt.
C8_LaunchErrorReturned ==
    launchErr # NoErr =>
        /\ Returned
        /\ ret.state = <<>>
        /\ ret.err = launchErr
        /\ linesRead = 0
        /\ launched = <<>>
        /\ attempts = 1

C8_Witness ==
    /\ Returned
    /\ launchErr = ErrStart
    /\ ret = ReturnErr(ErrStart)

\* C9: when the configuration has no Nodes section, or a Nodes section that
\* leaves N unset, Start resolves the number of nodes to 8.
C9_DefaultEight ==
    (pc # "start" /\ (IF yamlNodes = <<>> THEN TRUE ELSE yamlNodes[1].N = <<>>))
        => n = DefaultNumNodes

\* C10: the error Start returns when the stream ended is not the error it
\* returns when a read failed: it is the reader's EOF exactly when the stream
\* ended.
C10_EOFDistinct ==
    streamEnd # "open" =>
        /\ Returned
        /\ ret.err # NoErr
        /\ (ret.err = ErrEOF) <=> (streamEnd = "EOF")

C10_Witness ==
    /\ Returned
    /\ streamEnd = "fail"
    /\ ret.err = ErrRead
    /\ linesRead >= 1

----------------------------------------------------------------------------
(* Properties of the scan of one line, under SpecScan *)

\* The position of the first occurrence of sep in s
FirstAt(s, sep) ==
    CHOOSE j \in 1..Len(s) : s[j] = sep /\ \A h \in 1..(j - 1) : s[h] # sep

\* The text of s after the first occurrence of sep, to the end of s
AfterFirst(s, sep) == SubSeq(s, FirstAt(s, sep) + 1, Len(s))

\* The entries of bootstrapNode that the line being scanned has set
NewEntries == {k \in 1..Len(src) : src[k].line = linesRead}

NewByRule(rule) == {k \in NewEntries : src[k].rule = rule}

\* C11: after a line containing `peer ID` has been scanned, the peer identifier
\* stored from it is the whole text after the first `peer ID: `, to the end of
\* the line, also when `peer ID: ` occurs more than once.
C11_PeerIDToEndOfLine ==
    (pc = "scanned" /\ ContainsPeerID(curLine)) =>
        \E k \in NewByRule("peer") :
            bootstrapNode[k] = AfterFirst(curLine, PeerIDColon)

\* The text of s between the first occurrence of a and the next occurrence of
\* b after it
Between(s, a, b) ==
    LET rest == AfterFirst(s, a)
    IN  SubSeq(rest, 1, FirstAt(rest, b) - 1)

\* C12: when a line containing `Assigned to new address` has set the listen
\* address and ` now` follows the first `Assigned to new address; listening
\* on `, the stored address is the text between the two.
C12_AddressUpToNow ==
    (/\ pc = "scanned"
     /\ ContainsAssigned(curLine)
     /\ NewByRule("addr") # {}
     /\ Occurs(AfterFirst(curLine, AssignedFull), {Now})) =>
        \A k \in NewByRule("addr") :
            bootstrapNode[k] = Between(curLine, AssignedFull, Now)

\* The line matches neither rule
NoMatch(s) == ~ContainsPeerID(s) /\ ~ContainsAssigned(s)

\* C13: a line that contains neither `peer ID` nor `Assigned to new address`
\* sets no fact: scanning it does not crash and leaves bootstrapNode as it
\* was, and the next step goes back to reading with bootstrapNode unchanged.
C13_NoMatchNoFact ==
    /\ []((pc \in {"scanned", "panic"} /\ NoMatch(curLine)) =>
              /\ pc = "scanned"
              /\ bootstrapNode = prev
              /\ NewEntries = {})
    /\ [][(pc = "scanned" /\ NoMatch(curLine)) =>
              /\ pc' = "read"
              /\ bootstrapNode' = bootstrapNode]_vars

C13_Witness ==
    /\ pc = "scanned"
    /\ curLine = <<Txt, Now>>
    /\ prev # <<>>
    /\ bootstrapNode = prev

C17_CompleteLines ==
    pc \in {"scanned", "panic"} => ~isPrefix

----------------------------------------------------------------------------
(* Properties of whole runs *)

\* C15: Start has no timeout and returns when discovery terminates: on a
\* stream that does not stay silent for ever (it yields both facts, ends or
\* fails), Start eventually returns.
C15_EventuallyReturns == <>Returned

\* C16: every invocation of Start, a repeated one included, starts with no
\* facts and no workers, and when it gets past discovery it has launched its
\* own bootstrap node and taken its facts from lines it read itself.
C16_FreshInvocation ==
    /\ pc \in {"start", "check"} =>
           /\ bootstrapNode = <<>>
           /\ workers = <<>>
           /\ launched = <<>>
           /\ linesRead = 0
    /\ (pc \in {"loop", "done"} /\ bootstrapNode # <<>>) =>
           /\ launched = <<"Bootstrap">>
           /\ attempts = 1
           /\ Len(src) = Len(bootstrapNode)
           /\ \A k \in 1..Len(src) : src[k].line \in 1..linesRead
    /\ (Succeeded /\ n >= 1) =>
           /\ launched = <<"Bootstrap">>
           /\ Len(bootstrapNode) >= 2

C16_Witness ==
    /\ run = 2
    /\ Succeeded
    /\ launched = <<"Bootstrap">>
    /\ Len(bootstrapNode) = 2
    /\ linesRead = 2

\* C18: scanning a line never crashes Start, whatever the line holds.
C18_NeverCrashes == pc # "panic"

\* The configuration has a Nodes section with node count 0
ZeroNodes == cfgNodes # <<>> /\ cfgNodes[1].N = 0

\* C19 as claimed: with a Nodes section of node count 0, Start launches
\* nothing, reads nothing and returns success with an empty state.
C19_ZeroNodesSucceeds ==
    (ZeroNodes /\ Returned) =>
        /\ launched = <<>>
        /\ attempts = 0
        /\ linesRead = 0
        /\ bootstrapNode = <<>>
        /\ ret = ReturnState(<<>>)

\* C19: with a Nodes section of node count 0, Start launches no node and reads
\* no stream; it returns success with an empty state and no facts, unless the
\* install step ran and failed, and then it returns that error and no state.
C19_ZeroNodesNoLaunch ==
    ZeroNodes =>
        /\ launched = <<>>
        /\ attempts = 0
        /\ linesRead = 0
        /\ bootstrapNode = <<>>
        /\ pc \in {"start", "check", "loop", "done"}
        /\ Returned =>
               \/ ret = ReturnState(<<>>)
               \/ /\ ret = ReturnErr(ErrInstall)
                  /\ probe # <<>>
                  /\ NeedsInstall(probe[1].openErr, probe[1].statErr)

C19_Witness ==
    /\ ZeroNodes
    /\ yamlNodes = <<[N |-> <<0>>]>>
    /\ Returned
    /\ ret = ReturnState(<<>>)
    /\ attempts = 0

\* C20: the install step runs only if smcd is not installed: when smcd is
\* found on the PATH no install is run, whether or not cargo.toml exists; and
\* when the install fails Start has returned its error without launching a
\* node.
C20_InstallOnlyIfMissing ==
    /\ (pc = "check" /\ probe[1].openErr = NoErr) => ~ENABLED (InstallOK \/ InstallFail)
    /\ ret.err = ErrInstall =>
           /\ Returned
           /\ ret.state = <<>>
           /\ launched = <<>>
           /\ attempts = 0

====
